---- MODULE Spec2Model ----
(***************************************************************************)
(* DuckduckgoApiWebSearch (duckduckgo_api_haystack/duckduckgoapi.py): the  *)
(* adapter object, its rate limiter, its (de)serialisation hooks and run.  *)
(*                                                                         *)
(* Time is counted in whole ticks of one clock, time(), which never runs   *)
(* backwards; sleep(s) returns once at least s ticks have passed.          *)
(* Optional values are None (the empty tuple) or Some(v) (a 1-tuple); the  *)
(* float max_search_frequency is Inf or Fin(v).                            *)
(***************************************************************************)
EXTENDS Integers, Sequences, FiniteSets, TLC

VARIABLES
    self,           \* the adapter instance: its attributes
    now,            \* the clock read by time()
    pc,             \* per thread: position inside run / _rate_limit
    query,          \* per thread: run's argument
    current_time,   \* per thread: local of _rate_limit (line 103)
    time_to_wait,   \* per thread: local of _rate_limit (line 105)
    wake,           \* per thread: earliest clock value at which sleep returns
    answers,        \* per thread: local of run (line 163)
    results,        \* per thread: local of run (line 176)
    documents,      \* per thread: local of run (line 160)
    calls,          \* per thread: the provider calls made by the current run
    out,            \* per thread: how the current run ended
    writes,         \* per thread: assignments to last_search_time in this run
    ncalls,         \* number of run calls started
    gateLog,        \* the values assigned to last_search_time, in order
    start_time,     \* clock value when the first run was called
    lock,           \* holder of the gate's mutual-exclusion lock, 0 when free
    useLock,        \* whether callers wrap the gate in the lock
    data,           \* to_dict(self), once taken
    new_component,  \* from_dict(data), once built
    new_data        \* new_component.to_dict(), once taken

vars == <<self, now, pc, query, current_time, time_to_wait, wake, answers,
          results, documents, calls, out, writes, ncalls, gateLog, start_time, lock,
          useLock, data, new_component, new_data>>

\* What run and the clock touch.
runVars == <<self, now, pc, query, current_time, time_to_wait, wake, answers,
             results, documents, calls, out, writes, ncalls, gateLog, start_time>>

(* ------------------------------ bounds -------------------------------- *)
MaxClock == 4
MaxInterval == 2
MaxTopK == 2
MaxNegTopK == 1
MaxTextResults == 3
MaxAnswers == 2
MaxRuns == 3

(* ------------------------------ values -------------------------------- *)
None == <<>>
Some(v) == <<v>>
Inf == [inf |-> TRUE, val |-> 0]
Fin(v) == [inf |-> FALSE, val |-> v]
Max(a, b) == IF a >= b THEN a ELSE b
Min(a, b) == IF a <= b THEN a ELSE b

Threads == {1, 2}
SingleThread == {1}

ClassName == "duckduckgo_api_haystack.duckduckgoapi.DuckduckgoApiWebSearch"
ErrorName == "DuckduckgoApiWebSearchError"

(* --------------------------- construction ----------------------------- *)
ParamNames ==
    {"top_k", "max_results", "region", "safesearch", "timelimit", "backend",
     "allowed_domain", "timeout", "use_answers", "proxy", "max_search_frequency"}

Defaults ==
    [top_k |-> Some(10), max_results |-> Some(10), region |-> "wt-wt",
     safesearch |-> "moderate", timelimit |-> None, backend |-> "api",
     allowed_domain |-> "", timeout |-> 10, use_answers |-> FALSE,
     proxy |-> None, max_search_frequency |-> Inf]

Arg(kw, name) == IF name \in DOMAIN kw THEN kw[name] ELSE Defaults[name]

__init__(kw) ==
    [top_k |-> Arg(kw, "top_k"),
     max_results |-> Arg(kw, "max_results"),
     region |-> Arg(kw, "region"),
     safesearch |-> Arg(kw, "safesearch"),
     timelimit |-> Arg(kw, "timelimit"),
     backend |-> Arg(kw, "backend"),
     allowed_domain |-> Arg(kw, "allowed_domain"),
     timeout |-> Arg(kw, "timeout"),
     use_answers |-> Arg(kw, "use_answers"),
     search_params |-> [max_results |-> Arg(kw, "max_results"),
                        region |-> Arg(kw, "region"),
                        safesearch |-> Arg(kw, "safesearch"),
                        timelimit |-> Arg(kw, "timelimit"),
                        backend |-> Arg(kw, "backend")],
     proxy |-> Arg(kw, "proxy"),
     ddgs |-> [proxy |-> Arg(kw, "proxy")],
     max_search_frequency |-> Arg(kw, "max_search_frequency"),
     last_search_time |-> 0]

(* -------------------------- (de)serialisation ------------------------- *)
\* A variant of to_dict with top_k and max_results exchanged.
to_dict_exchanged(obj) ==
    [type |-> ClassName,
     init_parameters |->
        [top_k |-> obj.max_results,
         max_results |-> obj.top_k,
         region |-> obj.region,
         safesearch |-> obj.safesearch,
         timelimit |-> obj.timelimit,
         backend |-> obj.backend,
         allowed_domain |-> obj.allowed_domain,
         timeout |-> obj.timeout,
         use_answers |-> obj.use_answers,
         proxy |-> obj.proxy]]

\* default_to_dict(obj, **init_parameters): the class path and the keyword
\* arguments, as given.
to_dict(obj) ==
    [type |-> ClassName,
     init_parameters |->
        [top_k |-> obj.top_k,
         max_results |-> obj.max_results,
         region |-> obj.region,
         safesearch |-> obj.safesearch,
         timelimit |-> obj.timelimit,
         backend |-> obj.backend,
         allowed_domain |-> obj.allowed_domain,
         timeout |-> obj.timeout,
         use_answers |-> obj.use_answers,
         proxy |-> obj.proxy]]

\* default_from_dict(cls, data): refuses a snapshot of another class, then
\* calls cls(**init_parameters); a keyword __init__ does not take is a
\* TypeError.
from_dict(d) ==
    IF "type" \notin DOMAIN d \/ d.type # ClassName
    THEN [ok |-> FALSE, err |-> "DeserializationError"]
    ELSE IF ~(DOMAIN d.init_parameters \subseteq ParamNames)
    THEN [ok |-> FALSE, err |-> "TypeError"]
    ELSE [ok |-> TRUE, obj |-> __init__(d.init_parameters)]

(* ----------------------------- rate limiter --------------------------- *)
time_since_last_search(cur, last) == cur - last

\* A variant of TimeToWait with the operands of the subtraction exchanged.
TimeToWaitExchanged(freq, since) == Max(0, since - freq)

TimeToWait(freq, since) == Max(0, freq - since)

(* ------------------------------- provider ----------------------------- *)
AnswerRecord(i) == [text |-> <<"answer text", i>>, url |-> <<"answer url", i>>]
TextRecord(i) == [title |-> <<"title", i>>, body |-> <<"body", i>>,
                  href |-> <<"href", i>>]

\* What a provider call can do: raise, or return the first n records.
Raises == [raised |-> TRUE, n |-> 0]
Returns(n) == [raised |-> FALSE, n |-> n]
AnswersOutcomes == {Raises} \cup {Returns(n) : n \in 0..MaxAnswers}
TextOutcomes == {Raises} \cup {Returns(n) : n \in 0..MaxTextResults}

AnswersOf(r) == [i \in 1..r.n |-> AnswerRecord(i)]
ResultsOf(r) == [i \in 1..r.n |-> TextRecord(i)]

(* --------------------------------- run -------------------------------- *)
AnswerDocument(answer) == [title |-> "", content |-> answer.text, link |-> answer.url]
ResultDocument(result) ==
    [title |-> result.title, content |-> result.body, link |-> result.href]

AnswerDocuments(as) == [i \in 1..Len(as) |-> AnswerDocument(as[i])]
ResultDocuments(rs) == [i \in 1..Len(rs) |-> ResultDocument(rs[i])]
Links(rs) == [i \in 1..Len(rs) |-> rs[i].href]

\* A variant of EffectiveQuery that puts the site filter after the query.
EffectiveQueryFilterLast(allowed_domain, q) ==
    IF allowed_domain # "" THEN q \o " site:" \o allowed_domain ELSE q

EffectiveQuery(allowed_domain, q) ==
    IF allowed_domain # "" THEN "site:" \o allowed_domain \o " " \o q ELSE q

\* Python's seq[:k]: everything for None, the first k for k >= 0 and all but
\* the last -k for k < 0.
SliceTo(seq, k) ==
    IF k = None THEN seq
    ELSE IF k[1] >= 0 THEN SubSeq(seq, 1, Min(k[1], Len(seq)))
    ELSE SubSeq(seq, 1, Max(0, Len(seq) + k[1]))

NoOutcome == [raised |-> None, ret |-> None]
Raised(e) == [raised |-> Some(e), ret |-> None]
Returned(docs, links) ==
    [raised |-> None, ret |-> Some([documents |-> docs, links |-> links])]

(* ------------------------------- states ------------------------------- *)
Queries == {"x", "frico"}
Domains == {"", "example.com"}
TopKs == {None} \cup {Some(k) : k \in (0 - MaxNegTopK)..MaxTopK}
Frequencies == {Inf} \cup {Fin(v) : v \in 1..MaxInterval}

\* The constructor arguments a run is exercised with.
RunKwargs ==
    {[top_k |-> k, allowed_domain |-> d, use_answers |-> a,
      max_search_frequency |-> f] :
        k \in TopKs, d \in Domains, a \in BOOLEAN, f \in Frequencies}

\* The constructor arguments two threads share an adapter with.
ThreadsKwargs == {[max_search_frequency |-> f] : f \in Frequencies}

\* The constructor arguments the snapshot is exercised with.
SerdeKwargs ==
    {[top_k |-> k, max_results |-> m, region |-> r, safesearch |-> s,
      timelimit |-> tl, backend |-> b, allowed_domain |-> d, timeout |-> to,
      use_answers |-> a, proxy |-> p, max_search_frequency |-> f] :
        k \in {None, Some(12)}, m \in {None, Some(10)}, r \in {"wt-wt", "us-en"},
        s \in {"moderate", "off"}, tl \in {None, Some("d")}, b \in {"api", "html"},
        d \in {"", "test.com"}, to \in {10, 20}, a \in BOOLEAN,
        p \in {None, Some("proxytest.com")}, f \in {Inf, Fin(1)}}
    \cup {<<>>}

ThreadsInit ==
    /\ now = 0
    /\ pc = [t \in Threads |-> "idle"]
    /\ query = [t \in Threads |-> ""]
    /\ current_time = [t \in Threads |-> 0]
    /\ time_to_wait = [t \in Threads |-> 0]
    /\ wake = [t \in Threads |-> 0]
    /\ answers = [t \in Threads |-> <<>>]
    /\ results = [t \in Threads |-> <<>>]
    /\ documents = [t \in Threads |-> <<>>]
    /\ calls = [t \in Threads |-> <<>>]
    /\ out = [t \in Threads |-> NoOutcome]
    /\ writes = [t \in Threads |-> 0]
    /\ ncalls = 0
    /\ gateLog = <<>>
    /\ start_time = None
    /\ lock = 0

SerdeInit ==
    /\ data = None
    /\ new_component = None
    /\ new_data = None

\* One adapter, freshly constructed, used from one thread.
Init ==
    /\ \E kw \in RunKwargs : self = __init__(kw)
    /\ ThreadsInit
    /\ SerdeInit
    /\ useLock = FALSE

(* --------------------------- run, step by step ------------------------ *)
\* A caller enters run(query) (line 145); the locals of the call are fresh.
Call(t, q) ==
    /\ pc[t] \in {"idle", "done"}
    /\ ncalls < MaxRuns
    /\ pc' = [pc EXCEPT ![t] = "rate_limit"]
    /\ query' = [query EXCEPT ![t] = q]
    /\ current_time' = [current_time EXCEPT ![t] = 0]
    /\ time_to_wait' = [time_to_wait EXCEPT ![t] = 0]
    /\ wake' = [wake EXCEPT ![t] = 0]
    /\ answers' = [answers EXCEPT ![t] = <<>>]
    /\ results' = [results EXCEPT ![t] = <<>>]
    /\ documents' = [documents EXCEPT ![t] = <<>>]
    /\ calls' = [calls EXCEPT ![t] = <<>>]
    /\ out' = [out EXCEPT ![t] = NoOutcome]
    /\ writes' = [writes EXCEPT ![t] = 0]
    /\ ncalls' = ncalls + 1
    /\ start_time' = IF start_time = None THEN Some(now) ELSE start_time
    /\ UNCHANGED <<self, now, gateLog>>

\* A variant of RateLimitEnter that records the time of the search whether or
\* not a limit is configured.
RateLimitEnterAlwaysRecords(t) ==
    /\ pc[t] = "rate_limit"
    /\ IF self.max_search_frequency = Inf
       THEN /\ pc' = [pc EXCEPT ![t] = "answers"]
            /\ self' = [self EXCEPT !.last_search_time = now]
            /\ writes' = [writes EXCEPT ![t] = @ + 1]
            /\ UNCHANGED current_time
       ELSE /\ pc' = [pc EXCEPT ![t] = "compute"]
            /\ current_time' = [current_time EXCEPT ![t] = now]
            /\ UNCHANGED <<self, writes>>
    /\ UNCHANGED <<now, query, time_to_wait, wake, answers, results, documents,
                   calls, out, ncalls, gateLog, start_time>>

\* _rate_limit, lines 102-103: nothing to do without a limit, else read the clock.
RateLimitEnter(t) ==
    /\ pc[t] = "rate_limit"
    /\ IF self.max_search_frequency = Inf
       THEN /\ pc' = [pc EXCEPT ![t] = "answers"]
            /\ UNCHANGED current_time
       ELSE /\ pc' = [pc EXCEPT ![t] = "compute"]
            /\ current_time' = [current_time EXCEPT ![t] = now]
    /\ UNCHANGED <<self, now, query, time_to_wait, wake, answers, results,
                   documents, calls, out, writes, ncalls, gateLog, start_time>>

\* _rate_limit, lines 104-105: read last_search_time, compute the wait.
RateLimitCompute(t) ==
    /\ pc[t] = "compute"
    /\ time_to_wait' = [time_to_wait EXCEPT ![t] =
            TimeToWait(self.max_search_frequency.val,
                       time_since_last_search(current_time[t], self.last_search_time))]
    /\ pc' = [pc EXCEPT ![t] = "sleep"]
    /\ UNCHANGED <<self, now, query, current_time, wake, answers, results,
                   documents, calls, out, writes, ncalls, gateLog, start_time>>

\* _rate_limit, lines 106-107: sleep(time_to_wait) when there is a wait.
RateLimitSleep(t) ==
    /\ pc[t] = "sleep"
    /\ IF time_to_wait[t] > 0
       THEN /\ wake' = [wake EXCEPT ![t] = now + time_to_wait[t]]
            /\ pc' = [pc EXCEPT ![t] = "sleeping"]
       ELSE /\ pc' = [pc EXCEPT ![t] = "write"]
            /\ UNCHANGED wake
    /\ UNCHANGED <<self, now, query, current_time, time_to_wait, answers, results,
                   documents, calls, out, writes, ncalls, gateLog, start_time>>

\* sleep returns, no earlier than asked.
RateLimitWake(t) ==
    /\ pc[t] = "sleeping"
    /\ now >= wake[t]
    /\ pc' = [pc EXCEPT ![t] = "write"]
    /\ UNCHANGED <<self, now, query, current_time, time_to_wait, wake, answers,
                   results, documents, calls, out, writes, ncalls, gateLog,
                   start_time>>

\* A variant of RateLimitWrite that records the clock value read on entry
\* (current_time) instead of reading the clock again.
RateLimitWriteRecordsEntryTime(t) ==
    /\ pc[t] = "write"
    /\ self' = [self EXCEPT !.last_search_time = current_time[t]]
    /\ writes' = [writes EXCEPT ![t] = @ + 1]
    /\ gateLog' = Append(gateLog, current_time[t])
    /\ current_time' = [current_time EXCEPT ![t] = 0]
    /\ time_to_wait' = [time_to_wait EXCEPT ![t] = 0]
    /\ wake' = [wake EXCEPT ![t] = 0]
    /\ pc' = [pc EXCEPT ![t] = "answers"]
    /\ UNCHANGED <<now, query, answers, results, documents, calls, out, ncalls,
                   start_time>>

\* _rate_limit, line 108: last_search_time = time(); the gate returns and its
\* locals are gone.
RateLimitWrite(t) ==
    /\ pc[t] = "write"
    /\ self' = [self EXCEPT !.last_search_time = now]
    /\ writes' = [writes EXCEPT ![t] = @ + 1]
    /\ gateLog' = Append(gateLog, now)
    /\ current_time' = [current_time EXCEPT ![t] = 0]
    /\ time_to_wait' = [time_to_wait EXCEPT ![t] = 0]
    /\ wake' = [wake EXCEPT ![t] = 0]
    /\ pc' = [pc EXCEPT ![t] = "answers"]
    /\ UNCHANGED <<now, query, answers, results, documents, calls, out, ncalls,
                   start_time>>

\* A variant of Answers that swallows the provider's exception and goes on to
\* the text search with no answer documents.
AnswersSwallowsError(t, r) ==
    /\ pc[t] = "answers"
    /\ IF ~self.use_answers
       THEN /\ r = Returns(0)
            /\ UNCHANGED <<calls, answers, documents>>
       ELSE /\ calls' = [calls EXCEPT ![t] =
                    Append(@, [fn |-> "answers", keywords |-> query[t],
                               raised |-> r.raised])]
            /\ answers' = [answers EXCEPT ![t] = AnswersOf(r)]
            /\ documents' = [documents EXCEPT ![t] = AnswerDocuments(AnswersOf(r))]
    /\ pc' = [pc EXCEPT ![t] = "text"]
    /\ UNCHANGED <<self, now, query, current_time, time_to_wait, wake, results,
                   out, writes, ncalls, gateLog, start_time>>

\* run, lines 160-170: documents = []; the answers call with the query as
\* given, when enabled; its failure ends the run, its records become documents.
Answers(t, r) ==
    /\ pc[t] = "answers"
    /\ IF ~self.use_answers
       THEN /\ r = Returns(0)
            /\ pc' = [pc EXCEPT ![t] = "text"]
            /\ UNCHANGED <<calls, out, answers, documents>>
       ELSE /\ calls' = [calls EXCEPT ![t] =
                    Append(@, [fn |-> "answers", keywords |-> query[t],
                               raised |-> r.raised])]
            /\ IF r.raised
               THEN /\ out' = [out EXCEPT ![t] = Raised(ErrorName)]
                    /\ pc' = [pc EXCEPT ![t] = "done"]
                    /\ UNCHANGED <<answers, documents>>
               ELSE /\ answers' = [answers EXCEPT ![t] = AnswersOf(r)]
                    /\ documents' = [documents EXCEPT ![t] =
                            AnswerDocuments(AnswersOf(r))]
                    /\ pc' = [pc EXCEPT ![t] = "text"]
                    /\ UNCHANGED out
    /\ UNCHANGED <<self, now, query, current_time, time_to_wait, wake, results,
                   writes, ncalls, gateLog, start_time>>

\* A variant of Search that puts the text documents before the answer documents.
SearchPrepends(t, r) ==
    /\ pc[t] = "text"
    /\ calls' = [calls EXCEPT ![t] =
            Append(@, [fn |-> "text",
                       keywords |-> EffectiveQuery(self.allowed_domain, query[t]),
                       raised |-> r.raised])]
    /\ IF r.raised
       THEN /\ out' = [out EXCEPT ![t] = Raised(ErrorName)]
            /\ UNCHANGED <<results, documents>>
       ELSE /\ results' = [results EXCEPT ![t] = ResultsOf(r)]
            /\ documents' = [documents EXCEPT ![t] =
                    ResultDocuments(ResultsOf(r)) \o @]
            /\ out' = [out EXCEPT ![t] =
                    Returned(SliceTo(documents'[t], self.top_k),
                             SliceTo(Links(ResultsOf(r)), self.top_k))]
    /\ pc' = [pc EXCEPT ![t] = "done"]
    /\ UNCHANGED <<self, now, query, current_time, time_to_wait, wake, answers,
                   writes, ncalls, gateLog, start_time>>

\* run, lines 172-198: the text search with the effective query; its failure
\* ends the run, its records are appended as documents, their hrefs are the
\* links, and both lists are cut at top_k.
Search(t, r) ==
    /\ pc[t] = "text"
    /\ calls' = [calls EXCEPT ![t] =
            Append(@, [fn |-> "text",
                       keywords |-> EffectiveQuery(self.allowed_domain, query[t]),
                       raised |-> r.raised])]
    /\ IF r.raised
       THEN /\ out' = [out EXCEPT ![t] = Raised(ErrorName)]
            /\ UNCHANGED <<results, documents>>
       ELSE /\ results' = [results EXCEPT ![t] = ResultsOf(r)]
            /\ documents' = [documents EXCEPT ![t] =
                    @ \o ResultDocuments(ResultsOf(r))]
            /\ out' = [out EXCEPT ![t] =
                    Returned(SliceTo(documents'[t], self.top_k),
                             SliceTo(Links(ResultsOf(r)), self.top_k))]
    /\ pc' = [pc EXCEPT ![t] = "done"]
    /\ UNCHANGED <<self, now, query, current_time, time_to_wait, wake, answers,
                   writes, ncalls, gateLog, start_time>>

\* The clock advances.
Tick ==
    /\ now < MaxClock
    /\ now' = now + 1
    /\ UNCHANGED <<self, pc, query, current_time, time_to_wait, wake, answers,
                   results, documents, calls, out, writes, ncalls, gateLog,
                   start_time>>

\* What a step of run leaves alone.
RunFrame == UNCHANGED <<lock, useLock, data, new_component, new_data>>

Next ==
    \/ \E t \in SingleThread, q \in Queries : Call(t, q) /\ RunFrame
    \/ \E t \in SingleThread : RateLimitEnter(t) /\ RunFrame
    \/ \E t \in SingleThread : RateLimitCompute(t) /\ RunFrame
    \/ \E t \in SingleThread : RateLimitSleep(t) /\ RunFrame
    \/ \E t \in SingleThread : RateLimitWake(t) /\ RunFrame
    \/ \E t \in SingleThread : RateLimitWrite(t) /\ RunFrame
    \/ \E t \in SingleThread, r \in AnswersOutcomes : Answers(t, r) /\ RunFrame
    \/ \E t \in SingleThread, r \in TextOutcomes : Search(t, r) /\ RunFrame
    \/ Tick /\ RunFrame

Spec == Init /\ [][Next]_vars

(* ------------------- two threads on one adapter ----------------------- *)
InGate(p) == p \in {"rate_limit", "compute", "sleep", "sleeping", "write"}

\* Step A of thread t when callers wrap the gate (the call of _rate_limit) in
\* one mutual-exclusion lock: the gate is entered with the lock free, and the
\* lock is held until the gate returns. Without the lock, A as it is.
Locked(t, A) ==
    /\ A
    /\ IF useLock
       THEN /\ (InGate(pc'[t]) /\ ~InGate(pc[t])) => lock = 0
            /\ lock' = IF InGate(pc'[t]) THEN t
                       ELSE IF InGate(pc[t]) THEN 0 ELSE lock
       ELSE lock' = lock
    /\ UNCHANGED <<useLock, data, new_component, new_data>>

InitThreads ==
    /\ \E kw \in ThreadsKwargs : self = __init__(kw)
    /\ ThreadsInit
    /\ SerdeInit
    /\ useLock \in BOOLEAN

NextThreads ==
    \/ \E t \in Threads, q \in Queries : Locked(t, Call(t, q))
    \/ \E t \in Threads : Locked(t, RateLimitEnter(t))
    \/ \E t \in Threads : Locked(t, RateLimitCompute(t))
    \/ \E t \in Threads : Locked(t, RateLimitSleep(t))
    \/ \E t \in Threads : Locked(t, RateLimitWake(t))
    \/ \E t \in Threads : Locked(t, RateLimitWrite(t))
    \/ \E t \in Threads, r \in AnswersOutcomes : Locked(t, Answers(t, r))
    \/ \E t \in Threads, r \in TextOutcomes : Locked(t, Search(t, r))
    \/ Tick /\ RunFrame

SpecThreads == InitThreads /\ [][NextThreads]_vars

(* ------------------------ snapshot and rebuild ------------------------ *)
\* data = component.to_dict()
Serialize ==
    /\ data = None
    /\ data' = Some(to_dict(self))
    /\ UNCHANGED <<new_component, new_data>>

\* new_component = DuckduckgoApiWebSearch.from_dict(data)
Deserialize ==
    /\ data # None
    /\ new_component = None
    /\ new_component' = Some(from_dict(data[1]))
    /\ UNCHANGED <<data, new_data>>

\* new_component.to_dict()
Reserialize ==
    /\ new_component # None
    /\ new_component[1].ok
    /\ new_data = None
    /\ new_data' = Some(to_dict(new_component[1].obj))
    /\ UNCHANGED <<data, new_component>>

InitSerde ==
    /\ \E kw \in SerdeKwargs : self = __init__(kw)
    /\ ThreadsInit
    /\ SerdeInit
    /\ useLock = FALSE

\* What taking or loading a snapshot leaves alone.
SerdeFrame == UNCHANGED <<runVars, lock, useLock>>

NextSerde ==
    \/ Serialize /\ SerdeFrame
    \/ Deserialize /\ SerdeFrame
    \/ Reserialize /\ SerdeFrame

SpecSerde == InitSerde /\ [][NextSerde]_vars

(* ------------------------------ properties ---------------------------- *)
Finite == ~self.max_search_frequency.inf
Interval == self.max_search_frequency.val
PastGate(p) == p \in {"answers", "text", "done"}
Succeeded(t) == pc[t] = "done" /\ out[t].ret # None
CallsOf(t, fn) == {i \in 1..Len(calls[t]) : calls[t][i].fn = fn}
\* The first k elements of seq, all of it when it is shorter.
FirstK(seq, k) == [i \in 1..Min(k, Len(seq)) |-> seq[i]]

\* C1: with a finite minimum interval T and one calling thread, every gate after
\* the first records a timestamp at least T after the one the previous gate
\* recorded, the last recorded one is last_search_time, and N completed runs
\* span at least (N-1)*T from the first call.
C1_MinimumSpacing ==
    Finite =>
        /\ \A i \in 2..Len(gateLog) : gateLog[i] - gateLog[i - 1] >= Interval
        /\ Len(gateLog) > 0 => gateLog[Len(gateLog)] = self.last_search_time
        /\ \A t \in SingleThread :
              pc[t] = "done" => now - start_time[1] >= (ncalls - 1) * Interval

\* Three consecutive runs with T = 1 have completed, each gate exactly T after
\* the previous one.
C1_ThreeCalls ==
    /\ Finite
    /\ Interval = 1
    /\ ncalls = 3
    /\ \A t \in SingleThread : pc[t] = "done"
    /\ Len(gateLog) = 3
    /\ gateLog[2] - gateLog[1] = 1
    /\ gateLog[3] - gateLog[2] = 1

SnapshotKeys ==
    {"top_k", "max_results", "region", "safesearch", "timelimit", "backend",
     "allowed_domain", "timeout", "use_answers", "proxy"}

\* C2: the snapshot of an adapter holds exactly the ten configuration keys
\* (never the rate-limit interval), an adapter can be rebuilt from it, and the
\* rebuilt adapter's snapshot equals it.
C2_RoundTrip ==
    /\ data # None =>
          /\ DOMAIN data[1].init_parameters = SnapshotKeys
          /\ \A k \in SnapshotKeys : data[1].init_parameters[k] = self[k]
    /\ new_component # None => new_component[1].ok
    /\ new_data # None => new_data = data

\* An adapter built with a finite interval and non-default values went through
\* to_dict, from_dict and to_dict again.
C2_RoundTripDone ==
    /\ new_data # None
    /\ Finite
    /\ self.top_k = Some(12)
    /\ self.max_results = None
    /\ self.proxy = Some("proxytest.com")
    /\ new_component[1].obj.max_search_frequency = Inf

\* C3: with top_k = k and n >= k text results a successful run returns exactly
\* the first k documents and the first k links; with top_k set neither list is
\* longer than top_k; with top_k unset both lists are returned in full.
C3_Truncation ==
    \A t \in Threads : Succeeded(t) =>
        LET ret == out[t].ret[1]
            hrefs == Links(results[t])
        IN  IF self.top_k = None
            THEN ret.documents = documents[t] /\ ret.links = hrefs
            ELSE LET k == self.top_k[1]
                 IN  /\ Len(ret.documents) <= k
                     /\ Len(ret.links) <= k
                     /\ Len(results[t]) >= k =>
                           /\ Len(ret.documents) = k
                           /\ Len(ret.links) = k
                           /\ ret.documents = FirstK(documents[t], k)
                           /\ ret.links = FirstK(hrefs, k)

\* The statement of C3 for top_k unset or top_k >= 0.
C3_TruncationNonNegative ==
    (self.top_k = None \/ self.top_k[1] >= 0) => C3_Truncation

C5_DomainRestriction ==
    \A t \in Threads : \A i \in 1..Len(calls[t]) :
        LET c == calls[t][i]
        IN  /\ c.fn = "answers" => c.keywords = query[t]
            /\ (c.fn = "text" /\ self.allowed_domain = "") => c.keywords = query[t]
            /\ (c.fn = "text" /\ self.allowed_domain # "") =>
                  c.keywords = "site:" \o self.allowed_domain \o " " \o query[t]
            /\ (c.fn = "text" /\ self.allowed_domain = "example.com" /\ query[t] = "x")
                  => c.keywords = "site:example.com x"

\* A run with answers enabled and a domain configured made both calls.
C5_BothCallsWithDomain ==
    \E t \in Threads :
        /\ self.allowed_domain = "example.com"
        /\ query[t] = "x"
        /\ Len(calls[t]) = 2
        /\ calls[t][1].fn = "answers"
        /\ calls[t][2].fn = "text"

\* C6: before truncation the documents of a successful run are the answer
\* records (empty title, text, url) in provider order followed by the text
\* records (title, body, href) in provider order; with answers disabled the
\* answers call is never made and only the text records are there.
C6_AnswerPrepending ==
    \A t \in Threads :
        /\ ~self.use_answers => CallsOf(t, "answers") = {} /\ answers[t] = <<>>
        /\ Succeeded(t) =>
              LET a == Len(answers[t])
                  b == Len(results[t])
              IN  /\ Len(documents[t]) = a + b
                  /\ \A i \in 1..a : documents[t][i] =
                        [title |-> "", content |-> answers[t][i].text,
                         link |-> answers[t][i].url]
                  /\ \A j \in 1..b : documents[t][a + j] =
                        [title |-> results[t][j].title,
                         content |-> results[t][j].body,
                         link |-> results[t][j].href]

\* A run returned with two answers and at least two text results.
C6_AnswersAndResults ==
    \E t \in Threads :
        /\ Succeeded(t)
        /\ Len(answers[t]) = 2
        /\ Len(results[t]) >= 2

\* C7: the links of a successful run are the first top_k hrefs of the text
\* results (all of them when top_k is unset), whatever the answers were: links
\* has min(top_k, b) entries and documents has min(top_k, a+b).
C7_LinksFromTextOnly ==
    \A t \in Threads : Succeeded(t) =>
        LET ret == out[t].ret[1]
            hrefs == Links(results[t])
            a == Len(answers[t])
            b == Len(results[t])
        IN  IF self.top_k = None
            THEN ret.links = hrefs /\ Len(ret.documents) = a + b
            ELSE /\ ret.links = FirstK(hrefs, self.top_k[1])
                 /\ Len(ret.links) = Min(self.top_k[1], b)
                 /\ Len(ret.documents) = Min(self.top_k[1], a + b)

\* The statement of C7 for top_k unset or top_k >= 0.
C7_LinksFromTextOnlyNonNegative ==
    (self.top_k = None \/ self.top_k[1] >= 0) => C7_LinksFromTextOnly

\* A successful run with answers whose first link is not the first document's.
C7_PositionsDiverge ==
    \E t \in Threads :
        /\ Succeeded(t)
        /\ Len(answers[t]) >= 1
        /\ Len(out[t].ret[1].links) >= 1
        /\ out[t].ret[1].links[1] # out[t].ret[1].documents[1].link
        /\ Len(out[t].ret[1].links) < Len(out[t].ret[1].documents)

\* C8: the gate of the first run on a fresh adapter with a finite interval
\* computes a wait of zero and does not sleep, whatever the clock shows.
C8_FirstCallNeverDelayed ==
    \A t \in SingleThread :
        (Finite /\ ncalls = 1 /\ pc[t] \in {"sleep", "sleeping"}) =>
            /\ time_to_wait[t] = 0
            /\ pc[t] # "sleeping"

\* The statement of C8 for a first call made when the clock shows at least the
\* interval.
C8_FirstCallNotDelayedLateClock ==
    \A t \in SingleThread :
        (Finite /\ ncalls = 1 /\ pc[t] \in {"sleep", "sleeping"}
            /\ current_time[t] >= Interval) =>
            /\ time_to_wait[t] = 0
            /\ pc[t] # "sleeping"

OtherFieldsUnchanged ==
    [self' EXCEPT !.last_search_time = 0] = [self EXCEPT !.last_search_time = 0]

\* C9 as stated: every run assigns last_search_time exactly once, under every
\* configuration and whether it succeeds or fails, and changes no other field.
C9_WritesOncePerRun ==
    [][/\ \A t \in Threads : writes'[t] <= 1
       /\ \A t \in Threads :
             (pc[t] # "done" /\ pc'[t] = "done") => writes'[t] = 1
       /\ OtherFieldsUnchanged]_vars

\* C9, amended: a run assigns last_search_time exactly once when the interval
\* is finite and never when it is the no-limit default, whether it succeeds or
\* fails; no step of run changes any other field of the adapter.
C9_WritesOncePerFiniteRun ==
    [][/\ \A t \in Threads : writes'[t] <= 1
       /\ \A t \in Threads :
             (pc[t] # "done" /\ pc'[t] = "done") =>
                 writes'[t] = IF Finite THEN 1 ELSE 0
       /\ OtherFieldsUnchanged]_vars

\* A run with a finite interval failed after its one assignment.
C9_FailedRunWroteOnce ==
    \E t \in Threads :
        /\ Finite
        /\ pc[t] = "done"
        /\ out[t].raised # None
        /\ writes[t] = 1
        /\ self.last_search_time > 0

\* C10: with the whole gate under one lock, two threads never record gate
\* timestamps less than T apart.
C10_LockedGateKeepsSpacing ==
    (useLock /\ Finite) =>
        \A i \in 2..Len(gateLog) : gateLog[i] - gateLog[i - 1] >= Interval

\* Without the lock, two threads each made one call and passed the gate less
\* than T apart.
C10_UnlockedRace ==
    /\ ~useLock
    /\ Finite
    /\ ncalls = 2
    /\ \A t \in Threads : PastGate(pc[t]) /\ writes[t] = 1
    /\ Len(gateLog) = 2
    /\ gateLog[2] - gateLog[1] < Interval

====
